---------------------------- MODULE Spec2Model ----------------------------
(***************************************************************************)
(* Model of scripts/kernel.py, the generator of the dispatch arms that    *)
(* select a fixed-width intersection kernel from the run lengths of the   *)
(* two operands.  The script is a straight-line program: argument check,  *)
(* tier selection, catalog construction, then a doubly nested loop that   *)
(* prints one match arm per (left, right) pair.                            *)
(* Further down: scripts/codegen/mono.py, the generator of the variant    *)
(* declarations, and scripts/codegen/compare.py, the generator of the     *)
(* variant sets and experiment blocks.                                     *)
(***************************************************************************)
EXTENDS Integers, Sequences, FiniteSets, TLC

VARIABLES
    pc,           \* position in the script
    argv,         \* sys.argv[1:], the arguments after the script name
    simd,         \* the tier string, sys.argv[1]
    WIDTH,        \* lane count of the tier
    SHIFT,        \* width of the low field of a control id
    kernels,      \* the kernel catalog, a list of (small, large) pairs
    left,         \* outer loop variable
    right,        \* inner loop variable
    ctrl,         \* module-level variable ctrl
    stdout,       \* the lines printed so far
    exc,          \* the exception raised by the last call, "none" if none
    exit_status,  \* process exit status, -1 while running
    iter,         \* codegen scripts: print calls made so far by the current loop
    families      \* mono.py: the four lists of algorithm families

vars == <<pc, argv, simd, WIDTH, SHIFT, kernels, left, right, ctrl, stdout,
          exc, exit_status, iter, families>>

\* the variables only kernel.py uses
kvars == <<argv, simd, WIDTH, SHIFT, kernels, left, right, ctrl, exc>>

----------------------------------------------------------------------------
(* Bounds of the model *)

\* most arguments given after the script name
MaxArgs == 2

\* how far past 2*WIDTH-1 the operands of a direct get_ctrl call range
MaxExcess == 2

----------------------------------------------------------------------------
(* Inputs *)

Tiers == {"sse", "avx2", "avx512"}

\* strings a caller may pass: the three tiers and one unsupported name
ArgStrings == Tiers \cup {"neon"}

ArgLists == UNION {[1..n -> ArgStrings] : n \in 0..MaxArgs}

----------------------------------------------------------------------------
(* The lists of scripts/codegen/mono.py.  An identifier is kept as the     *)
(* sequence of the pieces its underscores separate: "bmiss_sttni" is       *)
(* <<"bmiss", "sttni">>, so f"{algo}_{vname}" is algo \o <<vname>> and two *)
(* identifiers are the same string exactly when they are the same          *)
(* sequence.                                                               *)

SHUF_ALGOS == << <<"shuffling">>, <<"broadcast">> >>
SIMD_WIDTHS == << <<"sse", "ssse3">>, <<"avx2", "avx2">>, <<"avx512", "avx512f">> >>

SCALAR_ALGOS == << <<"naive", "merge">>, <<"branchless", "merge">> >>
SSE_ALGOS == << <<"bmiss">>, <<"bmiss", "sttni">>, <<"qfilter">> >>
AVX512_ALGOS == << <<"vp2intersect", "emulation">> >>

VISITORS == << <<"count", "Counter">>,
               <<"lut", "UnsafeLookupWriter<i32>">>,
               <<"comp", "UnsafeCompressWriter<i32>">> >>

\* the four family lists as the script declares them
SourceFamilies ==
    [scalar |-> SCALAR_ALGOS, shuf |-> SHUF_ALGOS, sse |-> SSE_ALGOS,
     avx512 |-> AVX512_ALGOS]

----------------------------------------------------------------------------
(* Integer helpers: Python's <<, | and integer formatting *)

ShiftLeft(x, n) == x * (2 ^ n)

\* Python's | on unbounded two's complement integers; \div and % are floored
RECURSIVE BitOr(_, _)
BitOr(a, b) ==
    IF a = 0 THEN b
    ELSE IF b = 0 THEN a
    ELSE IF a = -1 \/ b = -1 THEN -1
    ELSE 2 * BitOr(a \div 2, b \div 2)
         + (IF a % 2 = 1 \/ b % 2 = 1 THEN 1 ELSE 0)

\* the digits of n >= 0 in the given base, most significant first
RECURSIVE Digits(_, _)
Digits(n, base) ==
    IF n < base THEN <<n>>
    ELSE Append(Digits(n \div base, base), n % base)

\* zero fill on the left up to a minimum width, as the format spec 0<w>
RECURSIVE ZeroPad(_, _)
ZeroPad(ds, w) == IF Len(ds) >= w THEN ds ELSE ZeroPad(<<0>> \o ds, w)

----------------------------------------------------------------------------
(* Tier selection, lines 16-27 *)

TierWidth(s) ==
    IF s = "sse" THEN 4
    ELSE IF s = "avx2" THEN 8
    ELSE 16

\* lines 18, 21, 24 with every SHIFT one less
TierShiftNarrow(s) ==
    IF s = "sse" THEN 2
    ELSE IF s = "avx2" THEN 3
    ELSE 4

\* lines 18, 21, 24 with every SHIFT one more
TierShiftWide(s) ==
    IF s = "sse" THEN 4
    ELSE IF s = "avx2" THEN 5
    ELSE 6

TierShift(s) ==
    IF s = "sse" THEN 3
    ELSE IF s = "avx2" THEN 4
    ELSE 5

\* lines 29-32 with the first loop stopping one short: range(1, WIDTH)
CatalogNoFullWidth(w) ==
    [i \in 1..(w - 1) |-> <<i, w>>] \o [i \in 1..(w * 2 - 1) |-> <<i, w * 2>>]

\* the catalog built by the two loops of lines 29-32
Catalog(w) ==
    [i \in 1..w |-> <<i, w>>] \o [i \in 1..(w * 2 - 1) |-> <<i, w * 2>>]

----------------------------------------------------------------------------
(* get_ctrl, lines 34-35: no check of its operands *)

\* line 35 with the operands exchanged
get_ctrl_swapped(l, r) == BitOr(ShiftLeft(r, SHIFT), l)

get_ctrl(l, r) == BitOr(ShiftLeft(l, SHIFT), r)

----------------------------------------------------------------------------
(* format_kernel, lines 37-46.  A literal is a prefix and its digits; the *)
(* line is kept as the fields substituted into the f-string.              *)

\* lines 38-43 with the hexadecimal format used for sse as well
id_str_hex_for_sse(c) ==
    IF simd = "sse" \/ simd = "avx2"
    THEN [prefix |-> "0x", digits |-> ZeroPad(Digits(c, 16), 2)]
    ELSE [prefix |-> "", digits |-> Digits(c, 10)]

\* lines 38-43
id_str(c) ==
    IF simd = "sse" THEN [prefix |-> "0o", digits |-> ZeroPad(Digits(c, 8), 2)]
    ELSE IF simd = "avx2" THEN [prefix |-> "0x", digits |-> ZeroPad(Digits(c, 16), 2)]
    ELSE [prefix |-> "", digits |-> Digits(c, 10)]

\* line 45 with the two operands in the other order
format_kernel_operands_swapped(c, kernel_small, kernel_large, small, large) ==
    [kind |-> "arm",
     id |-> id_str(c),
     module |-> simd,
     func |-> <<simd, kernel_small, kernel_large>>,
     args |-> <<large, small, "visitor">>]

format_kernel(c, kernel_small, kernel_large, small, large) ==
    [kind |-> "arm",
     id |-> id_str(c),
     module |-> simd,
     func |-> <<simd, kernel_small, kernel_large>>,
     args |-> <<small, large, "visitor">>]

----------------------------------------------------------------------------
(* The loop body, lines 50-71 *)

\* lines 50-59 with the else branch keeping the names of the then branch
RolesNoSwap(l, r) ==
    IF l <= r
    THEN [small_id |-> "left", small_value |-> l,
          large_id |-> "right", large_value |-> r]
    ELSE [small_id |-> "left", small_value |-> r,
          large_id |-> "right", large_value |-> l]

\* lines 50-59 with < for <=
RolesStrict(l, r) ==
    IF l < r
    THEN [small_id |-> "left", small_value |-> l,
          large_id |-> "right", large_value |-> r]
    ELSE [small_id |-> "right", small_value |-> r,
          large_id |-> "left", large_value |-> l]

\* lines 50-59
Roles(l, r) ==
    IF l <= r
    THEN [small_id |-> "left", small_value |-> l,
          large_id |-> "right", large_value |-> r]
    ELSE [small_id |-> "right", small_value |-> r,
          large_id |-> "left", large_value |-> l]

\* lines 63-66 with >= for >
KernelLargeGe(large_value) ==
    IF large_value >= WIDTH THEN WIDTH * 2 ELSE WIDTH

\* lines 63-66
KernelLarge(large_value) ==
    IF large_value > WIDTH THEN WIDTH * 2 ELSE WIDTH

\* the line printed for one (left, right), lines 50-71
ArmLine(l, r) ==
    LET ro == Roles(l, r) IN
    format_kernel(get_ctrl(l, r), ro.small_value, KernelLarge(ro.large_value),
                  ro.small_id, ro.large_id)

\* lines 48-49 with both ranges one short, range(1, WIDTH * 2 - 1)
NextPairShort(l, r) ==
    IF l = 0 THEN <<1, 1>>
    ELSE IF r + 1 < WIDTH * 2 - 1 THEN <<l, r + 1>>
    ELSE IF l + 1 < WIDTH * 2 - 1 THEN <<l + 1, 1>>
    ELSE <<0, 0>>

\* the two range(1, WIDTH * 2) iterators of lines 48-49: the pair after
\* (l, r), <<0, 0>> once both are exhausted; (0, 0) stands for "not started"
NextPair(l, r) ==
    IF l = 0 THEN <<1, 1>>
    ELSE IF r + 1 < WIDTH * 2 THEN <<l, r + 1>>
    ELSE IF l + 1 < WIDTH * 2 THEN <<l + 1, 1>>
    ELSE <<0, 0>>

----------------------------------------------------------------------------
(* The script *)

Init ==
    /\ pc = "start"
    /\ argv \in ArgLists
    /\ simd = ""
    /\ WIDTH = 0
    /\ SHIFT = 0
    /\ kernels = <<>>
    /\ left = 0
    /\ right = 0
    /\ ctrl = 0
    /\ stdout = <<>>
    /\ exc = "none"
    /\ exit_status = -1
    /\ iter = 0
    /\ families = SourceFamilies
\* lines 10-14 with < for !=: extra arguments pass
CheckArgsAtLeast ==
    /\ pc = "start"
    /\ IF Len(argv) + 1 < 2
       THEN /\ stdout' = Append(stdout, [kind |-> "usage"])
            /\ exit_status' = 1
            /\ pc' = "exit"
            /\ simd' = simd
       ELSE /\ simd' = argv[1]
            /\ pc' = "select"
            /\ UNCHANGED <<stdout, exit_status>>
    /\ UNCHANGED <<argv, WIDTH, SHIFT, kernels, left, right, ctrl, exc>>
    /\ UNCHANGED <<iter, families>>
\* lines 10-14: len(sys.argv) counts the script name
CheckArgs ==
    /\ pc = "start"
    /\ IF Len(argv) + 1 # 2
       THEN /\ stdout' = Append(stdout, [kind |-> "usage"])
            /\ exit_status' = 1
            /\ pc' = "exit"
            /\ simd' = simd
       ELSE /\ simd' = argv[1]
            /\ pc' = "select"
            /\ UNCHANGED <<stdout, exit_status>>
    /\ UNCHANGED <<argv, WIDTH, SHIFT, kernels, left, right, ctrl, exc>>
    /\ UNCHANGED <<iter, families>>
\* lines 16-27
SelectTier ==
    /\ pc = "select"
    /\ IF simd \in Tiers
       THEN /\ WIDTH' = TierWidth(simd)
            /\ SHIFT' = TierShift(simd)
            /\ pc' = "catalog"
            /\ UNCHANGED <<stdout, exit_status>>
       ELSE /\ stdout' = Append(stdout, [kind |-> "unknown", module |-> simd])
            /\ exit_status' = 1
            /\ pc' = "exit"
            /\ UNCHANGED <<WIDTH, SHIFT>>
    /\ UNCHANGED <<argv, simd, kernels, left, right, ctrl, exc>>
    /\ UNCHANGED <<iter, families>>
\* lines 29-32; the loop variable is the module-level ctrl
BuildCatalog ==
    /\ pc = "catalog"
    /\ kernels' = Catalog(WIDTH)
    /\ ctrl' = WIDTH * 2 - 1
    /\ pc' = "loop"
    /\ UNCHANGED <<argv, simd, WIDTH, SHIFT, left, right, stdout, exc,
                   exit_status>>
    /\ UNCHANGED <<iter, families>>
\* lines 48-71 with a lookup of (small_value, kernel_large) in kernels put
\* in front of the print, raising when the entry is absent
LoopBodyLookup ==
    /\ pc = "loop"
    /\ NextPair(left, right) # <<0, 0>>
    /\ left' = NextPair(left, right)[1]
    /\ right' = NextPair(left, right)[2]
    /\ ctrl' = get_ctrl(left', right')
    /\ LET ro == Roles(left', right')
           key == <<ro.small_value, KernelLarge(ro.large_value)>>
       IN IF \E i \in DOMAIN kernels : kernels[i] = key
          THEN /\ stdout' = Append(stdout, ArmLine(left', right'))
               /\ UNCHANGED <<pc, exc, exit_status>>
          ELSE /\ exc' = "MissingKernel"
               /\ exit_status' = 1
               /\ pc' = "exit"
               /\ stdout' = stdout
    /\ UNCHANGED <<argv, simd, WIDTH, SHIFT, kernels>>
    /\ UNCHANGED <<iter, families>>
\* one iteration of lines 48-71; kernels is not read
LoopBody ==
    /\ pc = "loop"
    /\ NextPair(left, right) # <<0, 0>>
    /\ left' = NextPair(left, right)[1]
    /\ right' = NextPair(left, right)[2]
    /\ ctrl' = get_ctrl(left', right')
    /\ stdout' = Append(stdout, ArmLine(left', right'))
    /\ UNCHANGED <<pc, argv, simd, WIDTH, SHIFT, kernels, exc, exit_status>>
    /\ UNCHANGED <<iter, families>>
\* the end of the script with a trailing exit(1)
LoopExitNonzero ==
    /\ pc = "loop"
    /\ NextPair(left, right) = <<0, 0>>
    /\ pc' = "done"
    /\ exit_status' = 1
    /\ UNCHANGED <<argv, simd, WIDTH, SHIFT, kernels, left, right, ctrl,
                   stdout, exc>>
    /\ UNCHANGED <<iter, families>>
\* both ranges exhausted: the script ends
LoopExit ==
    /\ pc = "loop"
    /\ NextPair(left, right) = <<0, 0>>
    /\ pc' = "done"
    /\ exit_status' = 0
    /\ UNCHANGED <<argv, simd, WIDTH, SHIFT, kernels, left, right, ctrl,
                   stdout, exc>>
    /\ UNCHANGED <<iter, families>>
Next == CheckArgs \/ SelectTier \/ BuildCatalog \/ LoopBody \/ LoopExit

Spec == Init /\ [][Next]_vars

----------------------------------------------------------------------------
(* get_ctrl called on its own, for any operands, in the environment the    *)
(* script has set up by line 35                                            *)

InitEncode ==
    /\ pc = "call"
    /\ argv \in [1..1 -> Tiers]
    /\ simd = argv[1]
    /\ WIDTH = TierWidth(simd)
    /\ SHIFT = TierShift(simd)
    /\ kernels = Catalog(WIDTH)
    /\ left \in (0 - MaxExcess)..(WIDTH * 2 - 1 + MaxExcess)
    /\ right \in (0 - MaxExcess)..(WIDTH * 2 - 1 + MaxExcess)
    /\ ctrl = WIDTH * 2 - 1
    /\ stdout = <<>>
    /\ exc = "none"
    /\ exit_status = -1
    /\ iter = 0
    /\ families = SourceFamilies
\* lines 34-35 with a check of the operands put in front of the return
CallGetCtrlChecked ==
    /\ pc = "call"
    /\ IF left \in 1..(WIDTH * 2 - 1) /\ right \in 1..(WIDTH * 2 - 1)
       THEN ctrl' = get_ctrl(left, right) /\ exc' = "none"
       ELSE ctrl' = ctrl /\ exc' = "InvalidOperand"
    /\ pc' = "returned"
    /\ UNCHANGED <<argv, simd, WIDTH, SHIFT, kernels, left, right, stdout,
                   exit_status>>
    /\ UNCHANGED <<iter, families>>
\* lines 34-35: the body returns, it has no raise
CallGetCtrl ==
    /\ pc = "call"
    /\ ctrl' = get_ctrl(left, right)
    /\ exc' = "none"
    /\ pc' = "returned"
    /\ UNCHANGED <<argv, simd, WIDTH, SHIFT, kernels, left, right, stdout,
                   exit_status>>
    /\ UNCHANGED <<iter, families>>
NextEncode == CallGetCtrl

SpecEncode == InitEncode /\ [][NextEncode]_vars

----------------------------------------------------------------------------
(* The script run over an edited catalog: lines 29-32 changed so that one *)
(* of the entries is not appended.  Nothing else of the script changes.   *)

RemoveAt(s, k) == SubSeq(s, 1, k - 1) \o SubSeq(s, k + 1, Len(s))

Range(s) == {s[i] : i \in DOMAIN s}

BuildCatalogEdited ==
    /\ pc = "catalog"
    /\ \E k \in 0..Len(Catalog(WIDTH)) :
          kernels' = IF k = 0 THEN Catalog(WIDTH)
                     ELSE RemoveAt(Catalog(WIDTH), k)
    /\ ctrl' = WIDTH * 2 - 1
    /\ pc' = "loop"
    /\ UNCHANGED <<argv, simd, WIDTH, SHIFT, left, right, stdout, exc,
                   exit_status>>
    /\ UNCHANGED <<iter, families>>
NextCatalog ==
    CheckArgs \/ SelectTier \/ BuildCatalogEdited \/ LoopBody \/ LoopExit

SpecCatalog == Init /\ [][NextCatalog]_vars

----------------------------------------------------------------------------
(* scripts/codegen/mono.py: the declarations it prints *)

\* the concatenation of a list of lists: what nested for loops print
RECURSIVE Flatten(_)
Flatten(ss) ==
    IF Len(ss) = 0 THEN <<>> ELSE Head(ss) \o Flatten(Tail(ss))

\* the guard line: Python's None (here "None") and "" are falsy
Guard(simd_feature) ==
    IF simd_feature # "None" /\ simd_feature # ""
    THEN <<"simd", simd_feature>>
    ELSE <<>>

\* lines 20-27 with the guard written whatever simd_feature is
print_algo_always_guarded(name, func, simd_feature, visitor) ==
    [kind |-> "decl", guard |-> <<"simd", simd_feature>>, name |-> name,
     params |-> <<"set_a", "set_b", "visitor">>, visitor |-> visitor,
     callee |-> func]

\* lines 20-27: the declaration <name>_mono calling func
print_algo(name, func, simd_feature, visitor) ==
    [kind |-> "decl", guard |-> Guard(simd_feature), name |-> name,
     params |-> <<"set_a", "set_b", "visitor">>, visitor |-> visitor,
     callee |-> func]

\* lines 29-36
print_c_algo(name, simd_feature) ==
    [kind |-> "decl", guard |-> Guard(simd_feature), name |-> name,
     params |-> <<"set_a", "set_b", "set_c">>, visitor |-> "",
     callee |-> name]

\* lines 43, 50, 56 with the visitor's floor left out
simd_req_no_floor(vname, feature) == feature

\* lines 43, 50, 56: "avx512f" if vname == "comp" else feature
simd_req(vname, feature) == IF vname = "comp" THEN "avx512f" ELSE feature

\* lines 38-39
HeaderPrints ==
    << [kind |-> "use", path |-> <<"crate", "intersect">>],
       [kind |-> "use", path |-> <<"crate", "visitor">>] >>

\* lines 41-44 given the second print of the vector loops
ScalarPrintsWithBranch ==
    Flatten([a \in DOMAIN families.scalar |->
      Flatten([v \in DOMAIN VISITORS |->
          LET algo == families.scalar[a]
              vname == VISITORS[v][1]
              vtype == VISITORS[v][2]
          IN << print_algo(algo \o <<vname>>, algo, simd_req(vname, "None"),
                           vtype),
                print_algo(algo \o <<"br", vname>>, algo \o <<"branch">>,
                           simd_req(vname, "None"), vtype) >>])])

\* lines 41-44
ScalarPrints ==
    Flatten([a \in DOMAIN families.scalar |->
        [v \in DOMAIN VISITORS |->
            LET algo == families.scalar[a]
                vname == VISITORS[v][1]
                vtype == VISITORS[v][2]
            IN print_algo(algo \o <<vname>>, algo, simd_req(vname, "None"),
                          vtype)]])

\* lines 46-52 with the name of line 52 lacking its _br
ShufPrintsSameName ==
    Flatten([a \in DOMAIN families.shuf |->
      Flatten([w \in DOMAIN SIMD_WIDTHS |->
        Flatten([v \in DOMAIN VISITORS |->
            LET func == families.shuf[a] \o <<SIMD_WIDTHS[w][1]>>
                feature == SIMD_WIDTHS[w][2]
                vname == VISITORS[v][1]
                vtype == VISITORS[v][2]
            IN << print_algo(func \o <<vname>>, func,
                             simd_req(vname, feature), vtype),
                  print_algo(func \o <<vname>>, func \o <<"branch">>,
                             simd_req(vname, feature), vtype) >>])])])

\* lines 46-52 with the branch style looped over outside the visitors
ShufPrintsBranchMajor ==
    Flatten([a \in DOMAIN families.shuf |->
      Flatten([w \in DOMAIN SIMD_WIDTHS |->
        LET func == families.shuf[a] \o <<SIMD_WIDTHS[w][1]>>
            feature == SIMD_WIDTHS[w][2]
        IN [v \in DOMAIN VISITORS |->
               print_algo(func \o <<VISITORS[v][1]>>, func,
                          simd_req(VISITORS[v][1], feature), VISITORS[v][2])]
           \o
           [v \in DOMAIN VISITORS |->
               print_algo(func \o <<"br", VISITORS[v][1]>>,
                          func \o <<"branch">>,
                          simd_req(VISITORS[v][1], feature), VISITORS[v][2])]])])

\* lines 46-52
ShufPrints ==
    Flatten([a \in DOMAIN families.shuf |->
      Flatten([w \in DOMAIN SIMD_WIDTHS |->
        Flatten([v \in DOMAIN VISITORS |->
            LET func == families.shuf[a] \o <<SIMD_WIDTHS[w][1]>>
                feature == SIMD_WIDTHS[w][2]
                vname == VISITORS[v][1]
                vtype == VISITORS[v][2]
            IN << print_algo(func \o <<vname>>, func,
                             simd_req(vname, feature), vtype),
                  print_algo(func \o <<"br", vname>>, func \o <<"branch">>,
                             simd_req(vname, feature), vtype) >>])])])

\* lines 54-58 with line 58 calling algo, not algo + "_branch"
SsePrintsPlainCallee ==
    Flatten([a \in DOMAIN families.sse |->
      Flatten([v \in DOMAIN VISITORS |->
          LET algo == families.sse[a]
              vname == VISITORS[v][1]
              vtype == VISITORS[v][2]
          IN << print_algo(algo \o <<vname>>, algo,
                           simd_req(vname, "ssse3"), vtype),
                print_algo(algo \o <<"br", vname>>, algo,
                           simd_req(vname, "ssse3"), vtype) >>])])

\* lines 54-58 with line 58 printing the name of line 57 plus "_c"
SsePrintsSuffixC ==
    Flatten([a \in DOMAIN families.sse |->
      Flatten([v \in DOMAIN VISITORS |->
          LET algo == families.sse[a]
              vname == VISITORS[v][1]
              vtype == VISITORS[v][2]
          IN << print_algo(algo \o <<vname>>, algo,
                           simd_req(vname, "ssse3"), vtype),
                print_algo(algo \o <<"c">>, algo \o <<"branch">>,
                           simd_req(vname, "ssse3"), vtype) >>])])

\* lines 54-58
SsePrints ==
    Flatten([a \in DOMAIN families.sse |->
      Flatten([v \in DOMAIN VISITORS |->
          LET algo == families.sse[a]
              vname == VISITORS[v][1]
              vtype == VISITORS[v][2]
          IN << print_algo(algo \o <<vname>>, algo,
                           simd_req(vname, "ssse3"), vtype),
                print_algo(algo \o <<"br", vname>>, algo \o <<"branch">>,
                           simd_req(vname, "ssse3"), vtype) >>])])

\* lines 60-63 without the print of line 63
Avx512PrintsNoBranch ==
    Flatten([a \in DOMAIN families.avx512 |->
      [v \in DOMAIN VISITORS |->
          print_algo(families.avx512[a] \o <<VISITORS[v][1]>>,
                     families.avx512[a], "avx512f", VISITORS[v][2])]])

\* lines 60-63
Avx512Prints ==
    Flatten([a \in DOMAIN families.avx512 |->
      Flatten([v \in DOMAIN VISITORS |->
          LET algo == families.avx512[a]
              vname == VISITORS[v][1]
              vtype == VISITORS[v][2]
          IN << print_algo(algo \o <<vname>>, algo, "avx512f", vtype),
                print_algo(algo \o <<"br", vname>>, algo \o <<"branch">>,
                           "avx512f", vtype) >>])])

\* line 65 made to depend on qfilter being listed in SSE_ALGOS
QfilterCPrintsIfListed ==
    IF \E a \in DOMAIN families.sse : families.sse[a] = <<"qfilter">>
    THEN << print_c_algo(<<"qfilter", "c">>, "ssse3") >>
    ELSE <<>>

\* line 65
QfilterCPrints == << print_c_algo(<<"qfilter", "c">>, "ssse3") >>

\* one section of a codegen script: its print calls in order, one per step,
\* then on to the next section
EmitFrom(prints, here, next) ==
    /\ pc = here
    /\ IF iter < Len(prints)
       THEN /\ stdout' = Append(stdout, prints[iter + 1])
            /\ iter' = iter + 1
            /\ pc' = pc
       ELSE /\ stdout' = stdout
            /\ iter' = 0
            /\ pc' = next
    /\ UNCHANGED <<kvars, exit_status, families>>

MonoHeader == EmitFrom(HeaderPrints, "mono_header", "mono_scalar")
MonoScalar == EmitFrom(ScalarPrints, "mono_scalar", "mono_shuf")
MonoShuf == EmitFrom(ShufPrints, "mono_shuf", "mono_sse")
MonoSse == EmitFrom(SsePrints, "mono_sse", "mono_avx512")
MonoAvx512 == EmitFrom(Avx512Prints, "mono_avx512", "mono_c")
MonoQfilterC == EmitFrom(QfilterCPrints, "mono_c", "mono_end")

\* the end of a script: exit status 0
ScriptExit(here, done) ==
    /\ pc = here
    /\ pc' = done
    /\ exit_status' = 0
    /\ UNCHANGED <<kvars, stdout, iter, families>>

MonoExit == ScriptExit("mono_end", "mono_done")

----------------------------------------------------------------------------
(* scripts/codegen/compare.py *)

ALGS ==
    << <<"shuffling", "sse">>, <<"shuffling", "avx2">>,
       <<"shuffling", "avx512">>,
       <<"broadcast", "sse">>, <<"broadcast", "avx2">>,
       <<"broadcast", "avx512">>,
       <<"bmiss">>, <<"bmiss", "sttni">>, <<"qfilter">>,
       <<"vp2intersect", "emulation">> >>

\* line 18: "" and "_br"
BRS == << <<>>, <<"br">> >>

\* line 19: "_lut" and "_comp"
SAVES == << <<"lut">>, <<"comp">> >>

\* lines 17-20 with the loop over br left out
VariantsNoBr(alg) ==
    << <<"branchless", "merge", "lut">> >>
    \o [sv \in DOMAIN SAVES |-> alg \o SAVES[sv]]

\* lines 17-20 with the two loops exchanged
VariantsSaveMajor(alg) ==
    << <<"branchless", "merge", "lut">> >>
    \o Flatten([sv \in DOMAIN SAVES |->
           [b \in DOMAIN BRS |-> alg \o BRS[b] \o SAVES[sv]]])

\* lines 17-20: the list variants of one alg
Variants(alg) ==
    << <<"branchless", "merge", "lut">> >>
    \o Flatten([b \in DOMAIN BRS |->
           [sv \in DOMAIN SAVES |-> alg \o BRS[b] \o SAVES[sv]]])

\* lines 16-23
SetPrints ==
    [a \in DOMAIN ALGS |->
        [kind |-> "set", name |-> <<"compare">> \o ALGS[a],
         variants |-> Variants(ALGS[a])]]

\* lines 25-30 with the name lacking its _{vary}
gen_exp_same_name(alg, vary) ==
    [kind |-> "experiment",
     name |-> <<"compare">> \o alg,
     dataset |-> <<"2set", "vary">> \o vary,
     algorithm_set |-> <<"compare">> \o alg]

\* lines 25-30
gen_exp(alg, vary) ==
    [kind |-> "experiment",
     name |-> <<"compare">> \o alg \o vary,
     dataset |-> <<"2set", "vary">> \o vary,
     algorithm_set |-> <<"compare">> \o alg]

\* lines 32-36
ExperimentPrints ==
    Flatten([a \in DOMAIN ALGS |->
        << gen_exp(ALGS[a], <<"size">>),
           gen_exp(ALGS[a], <<"selectivity", "l1">>),
           gen_exp(ALGS[a], <<"selectivity", "l3">>),
           gen_exp(ALGS[a], <<"selectivity", "mem">>) >>])

CompareSets == EmitFrom(SetPrints, "compare_sets", "compare_experiments")
CompareExperiments ==
    EmitFrom(ExperimentPrints, "compare_experiments", "compare_end")
CompareExit == ScriptExit("compare_end", "compare_done")

----------------------------------------------------------------------------
(* A run of one of the two codegen scripts; neither takes any input *)

InitCodegen ==
    /\ pc \in {"mono_header", "compare_sets"}
    /\ argv = <<>>
    /\ simd = ""
    /\ WIDTH = 0
    /\ SHIFT = 0
    /\ kernels = <<>>
    /\ left = 0
    /\ right = 0
    /\ ctrl = 0
    /\ stdout = <<>>
    /\ exc = "none"
    /\ exit_status = -1
    /\ iter = 0
    /\ families = SourceFamilies

NextCodegen ==
    \/ MonoHeader \/ MonoScalar \/ MonoShuf \/ MonoSse \/ MonoAvx512
    \/ MonoQfilterC \/ MonoExit
    \/ CompareSets \/ CompareExperiments \/ CompareExit

SpecCodegen == InitCodegen /\ [][NextCodegen]_vars

\* mono.py with its lists edited: each list cut after any number of entries
Prefixes(sq) == {SubSeq(sq, 1, k) : k \in 0..Len(sq)}

FamilyConfigs ==
    [scalar : Prefixes(SCALAR_ALGOS), shuf : Prefixes(SHUF_ALGOS),
     sse : Prefixes(SSE_ALGOS), avx512 : Prefixes(AVX512_ALGOS)]

InitMonoConfig ==
    /\ pc = "mono_header"
    /\ argv = <<>>
    /\ simd = ""
    /\ WIDTH = 0
    /\ SHIFT = 0
    /\ kernels = <<>>
    /\ left = 0
    /\ right = 0
    /\ ctrl = 0
    /\ stdout = <<>>
    /\ exc = "none"
    /\ exit_status = -1
    /\ iter = 0
    /\ families \in FamilyConfigs

NextMonoConfig ==
    \/ MonoHeader \/ MonoScalar \/ MonoShuf \/ MonoSse \/ MonoAvx512
    \/ MonoQfilterC \/ MonoExit

SpecMonoConfig == InitMonoConfig /\ [][NextMonoConfig]_vars

----------------------------------------------------------------------------
(* Reading the output back *)

\* the operand run lengths an arm is generated for
Domain == 1..(WIDTH * 2 - 1)

\* the value the consumer's compiler gives a literal from its prefix
LitBase(prefix) ==
    IF prefix = "0o" THEN 8 ELSE IF prefix = "0x" THEN 16 ELSE 10

RECURSIVE FromDigits(_, _)
FromDigits(ds, base) ==
    IF Len(ds) = 0 THEN 0
    ELSE FromDigits(SubSeq(ds, 1, Len(ds) - 1), base) * base + ds[Len(ds)]

ArmId(a) == FromDigits(a.id.digits, LitBase(a.id.prefix))

\* the positions of the dispatch arms in the output
ArmIdx == {i \in DOMAIN stdout : stdout[i].kind = "arm"}

IdsOut == [i \in DOMAIN stdout |-> IF stdout[i].kind = "arm" THEN ArmId(stdout[i]) ELSE -1]

Min(a, b) == IF a <= b THEN a ELSE b
Max(a, b) == IF a >= b THEN a ELSE b

Other(side) == IF side = "left" THEN "right" ELSE "left"

\* the run length of the named operand in the pair (l, r)
Held(side, l, r) == IF side = "left" THEN l ELSE r

\* the kernel an arm invokes and the operands it passes
ArmKernel(a) == <<a.module, a.func>>
ArmSmall(a) == a.args[1]
ArmLarge(a) == a.args[2]

\* the large width the claims state for a pair
LargeWidth(l, r) == IF Max(l, r) <= WIDTH THEN WIDTH ELSE 2 * WIDTH

----------------------------------------------------------------------------
(* C1: when the run has ended normally, every (left, right) of the domain *)
(* has exactly one emitted arm whose id is get_ctrl(left, right), and     *)
(* every emitted arm's id is get_ctrl of some pair of the domain.         *)
C1_ExactlyOneArmPerPair ==
    pc = "done" =>
        LET emitted == {ArmId(stdout[i]) : i \in ArmIdx}
            wanted == {get_ctrl(l, r) : l \in Domain, r \in Domain}
        IN
        \* every pair's id is emitted and every emitted id is some pair's
        /\ emitted = wanted
        \* no id is emitted by two arms, no two pairs share an arm
        /\ Cardinality(emitted) = Cardinality(ArmIdx)
        /\ Cardinality(ArmIdx) = Cardinality(Domain \X Domain)

C1_Witness ==
    /\ pc = "done"
    /\ simd = "avx2"
    /\ Cardinality(ArmIdx) = 225

(* C2: the id just computed for (left, right) is the id of no other pair  *)
(* of the domain: get_ctrl is injective on [1, 2*WIDTH-1]^2, and          *)
(* 2^SHIFT = 2*WIDTH.                                                      *)
C2_GetCtrlInjective ==
    (pc = "loop" /\ left \in Domain /\ right \in Domain) =>
        /\ ctrl = get_ctrl(left, right)
        /\ 2 ^ SHIFT = 2 * WIDTH
        /\ \A l \in Domain : \A r \in Domain :
              <<l, r>> # <<left, right>> => get_ctrl(l, r) # ctrl

C2_Witness ==
    /\ pc = "loop"
    /\ simd = "avx2"
    /\ left = 3
    /\ right = 15
    /\ ctrl = 63

(* C3 as stated: when the run has ended normally, every integer of        *)
(* [get_ctrl(1, 1), get_ctrl(2*WIDTH-1, 2*WIDTH-1)] is the id of some     *)
(* emitted arm.                                                            *)
C3_IntervalCovered ==
    pc = "done" =>
        LET ids == IdsOut IN
        \A c \in get_ctrl(1, 1)..get_ctrl(2 * WIDTH - 1, 2 * WIDTH - 1) :
            \E i \in ArmIdx : ids[i] = c

(* C3 amended: every arm's id lies in that interval, and an integer of    *)
(* the interval is the id of some arm exactly when its low SHIFT bits     *)
(* (the right run length) are not zero.                                    *)
C3_IntervalCoveredButRightZero ==
    pc = "done" =>
        LET ids == IdsOut
            lo == ((2 ^ SHIFT) + 1)
            hi == ((2 * WIDTH - 1) * (2 ^ SHIFT) + (2 * WIDTH - 1))
        IN
        /\ \A i \in ArmIdx : ids[i] \in lo..hi
        /\ \A c \in lo..hi :
              (\E i \in ArmIdx : ids[i] = c) <=> (c % (2 ^ SHIFT) # 0)

C3_Witness ==
    /\ pc = "done"
    /\ simd = "sse"
    /\ \E i \in ArmIdx : ArmId(stdout[i]) = 15
    /\ \E i \in ArmIdx : ArmId(stdout[i]) = 17
    /\ \A i \in ArmIdx : ArmId(stdout[i]) # 16

(* C4: the arm printed for (left, right) invokes the tier's kernel        *)
(* min(left, right) x LargeWidth, passes first the operand that holds the *)
(* minimum and second the other operand; for sse the arm with id 15 is    *)
(* sse_1x8(left, right, visitor).                                          *)
C4_ArmInvokesSmallTimesLarge ==
    (pc \in {"loop", "done"} /\ Len(stdout) > 0) =>
        LET a == stdout[Len(stdout)] IN
        /\ a.kind = "arm"
        /\ a.module = simd
        /\ a.func = <<simd, Min(left, right), LargeWidth(left, right)>>
        /\ Held(ArmSmall(a), left, right) = Min(left, right)
        /\ Held(ArmLarge(a), left, right) = Max(left, right)
        /\ ArmLarge(a) = Other(ArmSmall(a))
        /\ a.args[3] = "visitor"
        /\ (simd = "sse" /\ ArmId(a) = 15) =>
              /\ a.func = <<"sse", 1, 8>>
              /\ a.args = <<"left", "right", "visitor">>

C4_Witness ==
    /\ pc = "loop"
    /\ simd = "sse"
    /\ left = 1
    /\ right = 7
    /\ ArmId(stdout[Len(stdout)]) = 15

(* C5: the arm printed for (left, right) names the large width WIDTH when *)
(* max(left, right) <= WIDTH and 2*WIDTH otherwise; the boundary is       *)
(* max = WIDTH (WIDTH) against max = WIDTH + 1 (2*WIDTH).                  *)
C5_LargeWidthBucket ==
    (pc \in {"loop", "done"} /\ Len(stdout) > 0) =>
        LET a == stdout[Len(stdout)]
            m == Max(left, right)
        IN
        /\ m <= WIDTH => a.func[3] = WIDTH
        /\ m > WIDTH => a.func[3] = 2 * WIDTH
        /\ m = WIDTH => a.func[3] = WIDTH
        /\ m = WIDTH + 1 => a.func[3] = 2 * WIDTH

C5_Witness ==
    /\ pc = "loop"
    /\ simd = "avx2"
    /\ left = 8
    /\ right = 8
    /\ stdout[Len(stdout)].func[3] = 8

(* C6: when the run has ended normally, the arms of (left, right) and of  *)
(* (right, left) invoke the same kernel (same small width, same large     *)
(* width), and for left # right the operand names in the small and large  *)
(* roles are exchanged.                                                    *)
C6_KernelSymmetric ==
    pc = "done" =>
        LET ArmOf(l, r) == stdout[(l - 1) * (2 * WIDTH - 1) + r] IN
        \A l \in Domain : \A r \in Domain :
            LET a == ArmOf(l, r)
                b == ArmOf(r, l)
            IN
            /\ ArmId(a) = get_ctrl(l, r)
            /\ ArmId(b) = get_ctrl(r, l)
            /\ ArmKernel(a) = ArmKernel(b)
            /\ l # r => /\ ArmSmall(a) = ArmLarge(b)
                        /\ ArmLarge(a) = ArmSmall(b)
                        /\ ArmSmall(a) # ArmSmall(b)

C6_Witness ==
    /\ pc = "done"
    /\ simd = "sse"
    /\ \E i \in ArmIdx : \E j \in ArmIdx :
          /\ ArmId(stdout[i]) = 15
          /\ ArmId(stdout[j]) = 57
          /\ stdout[i].func = <<"sse", 1, 8>>
          /\ stdout[j].func = <<"sse", 1, 8>>
          /\ stdout[i].args = <<"left", "right", "visitor">>
          /\ stdout[j].args = <<"right", "left", "visitor">>

(* C7: every step that prints an arm prints one whose id is strictly      *)
(* greater than the id of every arm printed before it (so the arms are    *)
(* in ascending id order and no id is printed twice).                      *)
C7_AscendingEmission ==
    [][(Len(stdout') = Len(stdout) + 1 /\ stdout'[Len(stdout')].kind = "arm")
          => \A i \in ArmIdx : ArmId(stdout[i]) < ArmId(stdout'[Len(stdout')])]_vars

C7_Witness ==
    /\ pc = "loop"
    /\ simd = "avx2"
    /\ Len(stdout) = 16
    /\ ArmId(stdout[15]) = 31
    /\ ArmId(stdout[16]) = 33

\* what an arm is bound to: the kernel and the operands in their roles
Binding(a) == <<a.module, a.func, a.args>>

(* C8 as stated: no two emitted arms whose ids are adjacent (id, id + 1)  *)
(* are bound to the identical kernel and role assignment.                  *)
C8_NoAdjacentArmsSameBinding ==
    \A i \in ArmIdx : \A j \in ArmIdx :
        ArmId(stdout[j]) = ArmId(stdout[i]) + 1
            => Binding(stdout[i]) # Binding(stdout[j])

(* C8 amended: the table is the uncompressed pointwise list, one arm per  *)
(* pair, (2*WIDTH-1)^2 arms; two arms with adjacent ids (id, id + 1)      *)
(* are bound to the identical kernel and role assignment exactly when     *)
(* the lower one has left <= right and right # WIDTH.                      *)
C8_PointwiseTable ==
    pc = "done" =>
        LET ids == IdsOut IN
        /\ Cardinality(ArmIdx) = (2 * WIDTH - 1) * (2 * WIDTH - 1)
        /\ \A i \in ArmIdx : \A j \in ArmIdx :
              ids[j] = ids[i] + 1 =>
                  LET l == ids[i] \div (2 ^ SHIFT)
                      r == ids[i] % (2 ^ SHIFT)
                  IN (Binding(stdout[i]) = Binding(stdout[j]))
                        <=> (l <= r /\ r # WIDTH)

C8_Witness ==
    /\ pc = "done"
    /\ simd = "sse"
    /\ \E i \in ArmIdx : \E j \in ArmIdx :
          /\ ArmId(stdout[i]) = 9
          /\ ArmId(stdout[j]) = 10
          /\ Binding(stdout[i]) = Binding(stdout[j])
    /\ \E i \in ArmIdx : \E j \in ArmIdx :
          /\ ArmId(stdout[i]) = 12
          /\ ArmId(stdout[j]) = 13
          /\ Binding(stdout[i]) # Binding(stdout[j])

(* C9: when the run has ended normally, every arm's id c decodes by       *)
(* left = c >> SHIFT, right = c & (2^SHIFT - 1) to a pair of the domain    *)
(* with get_ctrl(left, right) = c, and the operand the arm passes in the   *)
(* small role has a decoded run length <= that of the operand in the      *)
(* large role.                                                             *)
C9_RoundTrip ==
    pc = "done" =>
        \A i \in ArmIdx :
            LET a == stdout[i]
                c == ArmId(a)
                l == c \div (2 ^ SHIFT)
                r == c % (2 ^ SHIFT)
            IN
            /\ l \in Domain
            /\ r \in Domain
            /\ get_ctrl(l, r) = c
            /\ ArmSmall(a) \in {"left", "right"}
            /\ ArmLarge(a) = Other(ArmSmall(a))
            /\ Held(ArmSmall(a), l, r) <= Held(ArmLarge(a), l, r)

C9_Witness ==
    /\ pc = "done"
    /\ simd = "avx2"
    /\ \E i \in ArmIdx :
          /\ ArmId(stdout[i]) = 241
          /\ ArmSmall(stdout[i]) = "right"
          /\ ArmLarge(stdout[i]) = "left"

(* C10 as stated: get_ctrl called with left or right outside              *)
(* [1, 2*WIDTH-1] fails with InvalidOperand.                               *)
C10_RejectsOutOfDomain ==
    (pc = "returned" /\ (left \notin Domain \/ right \notin Domain))
        => exc = "InvalidOperand"

(* C10 amended: get_ctrl checks nothing: for any operands, in the domain  *)
(* or not, it raises no error and returns an integer whose low SHIFT bits *)
(* are those of right, equal to left * 2^SHIFT + right when left >= 0 and *)
(* 0 <= right < 2^SHIFT.                                                    *)
C10_NoOperandCheck ==
    pc = "returned" =>
        /\ exc = "none"
        /\ ctrl % (2 ^ SHIFT) = right % (2 ^ SHIFT)
        /\ (left >= 0 /\ right \in 0..(2 ^ SHIFT - 1))
              => ctrl = left * (2 ^ SHIFT) + right

C10_Witness ==
    /\ pc = "returned"
    /\ simd = "sse"
    /\ left = 1
    /\ right = 8
    /\ exc = "none"
    /\ ctrl = 8

(* C11 as stated: generation never emits an arm that invokes a kernel     *)
(* absent from the catalog kernels (it fails with MissingKernel instead). *)
C11_NoArmForAbsentKernel ==
    \A i \in ArmIdx :
        <<stdout[i].func[2], stdout[i].func[3]>> \in Range(kernels)

(* C11 amended: the catalog is built but never read: with any one entry   *)
(* removed the run raises nothing, fails only on its arguments, prints    *)
(* all (2*WIDTH-1)^2 arms and exits 0, so the arms that invoke the        *)
(* removed kernel are emitted all the same.                                *)
C11_CatalogNeverConsulted ==
    /\ exc = "none"
    /\ pc = "exit" => (Len(argv) # 1 \/ argv[1] \notin Tiers)
    /\ pc = "done" =>
          /\ exit_status = 0
          /\ Cardinality(ArmIdx) = (2 * WIDTH - 1) * (2 * WIDTH - 1)
          /\ \A k \in Range(Catalog(WIDTH)) :
                \E i \in ArmIdx : <<stdout[i].func[2], stdout[i].func[3]>> = k

C11_Witness ==
    /\ pc = "done"
    /\ simd = "sse"
    /\ <<1, 8>> \notin Range(kernels)
    /\ \E i \in ArmIdx : stdout[i].func = <<"sse", 1, 8>>

(* C12: whenever the exit status is nonzero, no dispatch arm has been     *)
(* printed, and no step that ends the run with a nonzero status follows a *)
(* printed arm: every error check precedes the first arm.                 *)
C12_NoArmsOnError ==
    (exit_status # 0 /\ exit_status # -1) => ArmIdx = {}

C12_Witness ==
    /\ pc = "exit"
    /\ exit_status = 1
    /\ argv = <<"neon">>
    /\ ArmIdx = {}

(* C13 as stated: when the argument is missing, extra arguments are       *)
(* given or the tier is not sse/avx2/avx512, the run ends with a nonzero  *)
(* status after printing the usage message.                                *)
C13_UsageOnEveryRejection ==
    pc = "exit" =>
        /\ exit_status # 0
        /\ Len(stdout) > 0
        /\ stdout[Len(stdout)].kind = "usage"

(* C13 amended: the script runs to the end (status 0) exactly when given  *)
(* one argument that is sse, avx2 or avx512; with no or several arguments *)
(* it prints the usage message and exits 1; with one argument that is no  *)
(* tier it prints "unknown simd type <arg>", not the usage message, and   *)
(* exits 1.                                                                *)
C13_RejectsBadArguments ==
    /\ pc \in {"catalog", "loop", "done"} => (Len(argv) = 1 /\ argv[1] \in Tiers)
    /\ pc = "done" => exit_status = 0
    /\ pc = "exit" =>
          /\ exit_status = 1
          /\ Len(argv) # 1 => stdout = <<[kind |-> "usage"]>>
          /\ Len(argv) = 1 =>
                /\ argv[1] \notin Tiers
                /\ stdout = <<[kind |-> "unknown", module |-> argv[1]]>>

C13_Witness ==
    /\ pc = "exit"
    /\ argv = <<"neon">>
    /\ exit_status = 1
    /\ stdout = <<[kind |-> "unknown", module |-> "neon"]>>

----------------------------------------------------------------------------
(* Reading the output of the codegen scripts back *)

Last(sq) == sq[Len(sq)]

DeclIdx == {i \in DOMAIN stdout : stdout[i].kind = "decl"}

\* the declarations that take a visitor (all but qfilter_c)
VDeclIdx == {i \in DeclIdx : stdout[i].params[3] = "visitor"}

SetIdx == {i \in DOMAIN stdout : stdout[i].kind = "set"}
ExpIdx == {i \in DOMAIN stdout : stdout[i].kind = "experiment"}

\* a variant identifier is <family and width> [br] <visitor>
NameVisitor(n) == Last(n)
NameIsBr(n) == Len(n) >= 2 /\ n[Len(n) - 1] = "br"
NameBase(n) == SubSeq(n, 1, Len(n) - (IF NameIsBr(n) THEN 2 ELSE 1))

GuardFeature(d) == IF d.guard = <<>> THEN "none" ELSE d.guard[2]

(* C14: determinism relates two runs of a script.  Every operator above   *)
(* is a function of the configuration lists and the tier alone, so no     *)
(* formula over a single run states it.                                    *)

(* C15: when mono.py has ended, each of the families shuffling and        *)
(* broadcast has exactly 18 declarations, and their names are exactly the *)
(* 18 combinations of a width (sse, avx2, avx512), a branch style (plain  *)
(* or br) and a visitor (count, lut, comp), so none is declared twice.    *)
C15_ShufFamily18Variants ==
    pc = "mono_done" =>
        \A f \in {"shuffling", "broadcast"} :
            LET idx == {i \in DeclIdx : stdout[i].name[1] = f}
                combos == {<<f, w>> \o b \o <<v>> :
                               w \in {"sse", "avx2", "avx512"},
                               b \in {<<>>, <<"br">>},
                               v \in {"count", "lut", "comp"}}
            IN
            /\ Cardinality(combos) = 18
            /\ Cardinality(idx) = 18
            /\ {stdout[i].name : i \in idx} = combos

C15_Witness ==
    /\ pc = "mono_done"
    /\ \E i \in DeclIdx : stdout[i].name = <<"broadcast", "avx512", "br", "comp">>
    /\ \E i \in DeclIdx : stdout[i].name = <<"shuffling", "sse", "count">>

\* the (family, width) pairs in the order of the configuration lists
BaseOrder ==
    << <<"naive", "merge">>, <<"branchless", "merge">>,
       <<"shuffling", "sse">>, <<"shuffling", "avx2">>,
       <<"shuffling", "avx512">>,
       <<"broadcast", "sse">>, <<"broadcast", "avx2">>,
       <<"broadcast", "avx512">>,
       <<"bmiss">>, <<"bmiss", "sttni">>, <<"qfilter">>,
       <<"vp2intersect", "emulation">> >>

BaseRank(b) == CHOOSE k \in DOMAIN BaseOrder : BaseOrder[k] = b
VisitorRank(v) == CHOOSE k \in 1..3 : <<"count", "lut", "comp">>[k] = v
BranchRank(n) == IF NameIsBr(n) THEN 1 ELSE 0

LexLess(x, y) ==
    \/ x[1] < y[1]
    \/ x[1] = y[1] /\ x[2] < y[2]
    \/ x[1] = y[1] /\ x[2] = y[2] /\ x[3] < y[3]

(* C16 as stated: the variants are printed in the order family, width,    *)
(* branch style, visitor: of two variants the one printed first has the   *)
(* smaller (family and width, branch style, visitor), so within one       *)
(* (family, width) every branch-free variant precedes every branching one.*)
C16_BranchStyleThenVisitor ==
    \A i \in VDeclIdx : \A j \in VDeclIdx :
        i < j =>
            LexLess(<<BaseRank(NameBase(stdout[i].name)),
                      BranchRank(stdout[i].name),
                      VisitorRank(NameVisitor(stdout[i].name))>>,
                    <<BaseRank(NameBase(stdout[j].name)),
                      BranchRank(stdout[j].name),
                      VisitorRank(NameVisitor(stdout[j].name))>>)

(* C16 amended: the order is family, width, visitor, branch style: of two *)
(* variants the one printed first has the smaller (family and width,      *)
(* visitor, branch style); each branching variant directly follows the    *)
(* branch-free variant of the same family, width and visitor.             *)
C16_VisitorThenBranchStyle ==
    /\ \A i \in VDeclIdx : \A j \in VDeclIdx :
          i < j =>
              LexLess(<<BaseRank(NameBase(stdout[i].name)),
                        VisitorRank(NameVisitor(stdout[i].name)),
                        BranchRank(stdout[i].name)>>,
                      <<BaseRank(NameBase(stdout[j].name)),
                        VisitorRank(NameVisitor(stdout[j].name)),
                        BranchRank(stdout[j].name)>>)
    /\ \A i \in VDeclIdx :
          NameIsBr(stdout[i].name) =>
              /\ i - 1 \in VDeclIdx
              /\ ~NameIsBr(stdout[i - 1].name)
              /\ NameBase(stdout[i - 1].name) = NameBase(stdout[i].name)
              /\ NameVisitor(stdout[i - 1].name) = NameVisitor(stdout[i].name)

C16_Witness ==
    /\ Len(stdout) >= 11
    /\ stdout[9].name = <<"shuffling", "sse", "count">>
    /\ stdout[10].name = <<"shuffling", "sse", "br", "count">>
    /\ stdout[11].name = <<"shuffling", "sse", "lut">>

\* the order of the features and the requirements of the two sides
FeatureRank(f) ==
    CHOOSE k \in 0..3 : <<"none", "ssse3", "avx2", "avx512f">>[k + 1] = f

Strictest(f, g) == IF FeatureRank(f) >= FeatureRank(g) THEN f ELSE g

AlgorithmRequirement(base) ==
    IF base \in {<<"naive", "merge">>, <<"branchless", "merge">>} THEN "none"
    ELSE IF base \in {<<"bmiss">>, <<"bmiss", "sttni">>, <<"qfilter">>}
    THEN "ssse3"
    ELSE IF base = <<"vp2intersect", "emulation">> THEN "avx512f"
    ELSE IF Last(base) = "sse" THEN "ssse3"
    ELSE IF Last(base) = "avx2" THEN "avx2"
    ELSE "avx512f"

VisitorFloor(v) == IF v = "comp" THEN "avx512f" ELSE "none"

RequiredFeature(d) ==
    IF d.params[3] = "visitor"
    THEN Strictest(AlgorithmRequirement(NameBase(d.name)),
                   VisitorFloor(NameVisitor(d.name)))
    ELSE "ssse3"

(* C17: the feature in the guard of every printed variant is the          *)
(* strictest, under none < ssse3 < avx2 < avx512f, of the algorithm's     *)
(* requirement and the visitor's floor (avx512f for comp, none else).     *)
C17_GuardIsStrictestRequirement ==
    \A i \in VDeclIdx :
        LET d == stdout[i]
            alg == AlgorithmRequirement(NameBase(d.name))
            vis == VisitorFloor(NameVisitor(d.name))
        IN
        /\ GuardFeature(d) = Strictest(alg, vis)
        /\ FeatureRank(GuardFeature(d)) >= FeatureRank(alg)
        /\ FeatureRank(GuardFeature(d)) >= FeatureRank(vis)

C17_Witness ==
    /\ \E i \in VDeclIdx :
          /\ stdout[i].name = <<"shuffling", "sse", "comp">>
          /\ stdout[i].guard = <<"simd", "avx512f">>
    /\ \E i \in VDeclIdx :
          /\ stdout[i].name = <<"shuffling", "avx2", "lut">>
          /\ stdout[i].guard = <<"simd", "avx2">>

(* C18: a printed declaration has a guard exactly when its required       *)
(* feature is not none, and the guard then names that feature; when       *)
(* mono.py has ended the unguarded declarations are exactly naive_merge   *)
(* and branchless_merge with the count or lut visitor.                    *)
C18_GuardIffFeatureRequired ==
    /\ \A i \in DeclIdx :
          LET d == stdout[i] IN
          /\ (d.guard # <<>>) <=> (RequiredFeature(d) # "none")
          /\ d.guard # <<>> => d.guard = <<"simd", RequiredFeature(d)>>
    /\ pc = "mono_done" =>
          {stdout[i].name : i \in {k \in DeclIdx : stdout[k].guard = <<>>}}
              = {<<"naive", "merge", "count">>, <<"naive", "merge", "lut">>,
                 <<"branchless", "merge", "count">>,
                 <<"branchless", "merge", "lut">>}

C18_Witness ==
    /\ pc = "mono_done"
    /\ \E i \in DeclIdx :
          stdout[i].name = <<"naive", "merge", "lut">> /\ stdout[i].guard = <<>>
    /\ \E i \in DeclIdx :
          /\ stdout[i].name = <<"naive", "merge", "comp">>
          /\ stdout[i].guard = <<"simd", "avx512f">>
    /\ \E i \in DeclIdx :
          /\ stdout[i].name = <<"qfilter", "c">>
          /\ stdout[i].guard = <<"simd", "ssse3">>

\* the variant identifiers mono.py declares, and those of one family
MonoVariantNames ==
    {p.name : p \in Range(ScalarPrints \o ShufPrints \o SsePrints
                          \o Avx512Prints)}

FamilyVariants(alg) == {n \in MonoVariantNames : NameBase(n) = alg}

(* C19 as stated: every set compare_<alg> printed holds every variant     *)
(* that mono.py declares for the family <alg>.                             *)
C19_SetHoldsAllFamilyVariants ==
    \A i \in SetIdx :
        FamilyVariants(Tail(stdout[i].name)) \subseteq Range(stdout[i].variants)

(* C19 amended: every set compare_<alg> printed holds, of the six         *)
(* variants mono.py declares for <alg>, exactly the four with the lut or  *)
(* comp visitor (both branch styles) and neither count variant; its only  *)
(* other entry is the baseline branchless_merge_lut.                       *)
C19_SetHoldsLutAndCompVariants ==
    \A i \in SetIdx :
        LET alg == Tail(stdout[i].name)
            held == Range(stdout[i].variants)
        IN
        /\ stdout[i].name[1] = "compare"
        /\ Cardinality(FamilyVariants(alg)) = 6
        /\ held \cap FamilyVariants(alg)
              = {n \in FamilyVariants(alg) : NameVisitor(n) \in {"lut", "comp"}}
        /\ Cardinality(held \cap FamilyVariants(alg)) = 4
        /\ alg \o <<"count">> \notin held
        /\ alg \o <<"br", "count">> \notin held
        /\ held \ FamilyVariants(alg) = {<<"branchless", "merge", "lut">>}

C19_Witness ==
    \E i \in SetIdx :
        /\ stdout[i].name = <<"compare", "bmiss", "sttni">>
        /\ <<"bmiss", "sttni", "br", "comp">> \in Range(stdout[i].variants)
        /\ <<"bmiss", "sttni", "count">> \in FamilyVariants(<<"bmiss", "sttni">>)
        /\ <<"bmiss", "sttni", "count">> \notin Range(stdout[i].variants)

\* the dataset axes of the experiments
Varies ==
    {<<"size">>, <<"selectivity", "l1">>, <<"selectivity", "l3">>,
     <<"selectivity", "mem">>}

(* C20: every printed experiment references a set printed before it, no   *)
(* set is printed after an experiment, experiment names are pairwise      *)
(* distinct; when compare.py has ended there are 10 sets and 40           *)
(* experiments, 4 for each of the 10 algorithms: size, selectivity_l1,    *)
(* selectivity_l3, selectivity_mem.                                        *)
C20_ExperimentsReferenceSets ==
    /\ \A i \in ExpIdx :
          \E j \in SetIdx : j < i /\ stdout[j].name = stdout[i].algorithm_set
    /\ \A i \in ExpIdx : \A j \in SetIdx : j < i
    /\ \A i \in ExpIdx : \A j \in ExpIdx :
          i # j => stdout[i].name # stdout[j].name
    /\ pc = "compare_done" =>
          /\ Cardinality(Range(ALGS)) = 10
          /\ Cardinality(SetIdx) = 10
          /\ Cardinality(ExpIdx) = 40
          /\ \A alg \in Range(ALGS) :
                LET mine == {i \in ExpIdx :
                                stdout[i].algorithm_set = <<"compare">> \o alg}
                IN
                /\ Cardinality(mine) = 4
                /\ {stdout[i].name : i \in mine}
                      = {<<"compare">> \o alg \o v : v \in Varies}
                /\ \A i \in mine :
                      stdout[i].name
                          = stdout[i].algorithm_set
                            \o SubSeq(stdout[i].dataset, 3, Len(stdout[i].dataset))

C20_Witness ==
    /\ pc = "compare_done"
    /\ \E i \in ExpIdx :
          /\ stdout[i].name = <<"compare", "qfilter", "selectivity", "l3">>
          /\ stdout[i].dataset = <<"2set", "vary", "selectivity", "l3">>
          /\ stdout[i].algorithm_set = <<"compare", "qfilter">>

----------------------------------------------------------------------------
\* every list of algorithm families is empty
AllFamiliesEmpty ==
    /\ families.scalar = <<>>
    /\ families.shuf = <<>>
    /\ families.sse = <<>>
    /\ families.avx512 = <<>>

\* the declarations the four loops print for the lists in force
LoopDeclCount ==
    Len(families.scalar) * Len(VISITORS)
    + Len(families.shuf) * Len(SIMD_WIDTHS) * Len(VISITORS) * 2
    + Len(families.sse) * Len(VISITORS) * 2
    + Len(families.avx512) * Len(VISITORS) * 2

(* C21 as stated: when mono.py has ended and every list of algorithm      *)
(* families is empty, the output holds no function declaration.            *)
C21_NoDeclarationWhenListsEmpty ==
    (pc = "mono_done" /\ AllFamiliesEmpty) => DeclIdx = {}

(* C21: when mono.py has ended, the declarations taking a visitor are as   *)
(* many as the loops over the lists in force print, so none when every     *)
(* list is empty; the declaration qfilter_c, which takes no visitor, is    *)
(* printed once whatever the lists are, and with every list empty it is    *)
(* the only line after the two use lines.                                  *)
C21_OnlyQfilterCWhenListsEmpty ==
    pc = "mono_done" =>
        /\ Cardinality(VDeclIdx) = LoopDeclCount
        /\ DeclIdx \ VDeclIdx = {Len(stdout)}
        /\ stdout[Len(stdout)] = print_c_algo(<<"qfilter", "c">>, "ssse3")
        /\ AllFamiliesEmpty =>
              /\ VDeclIdx = {}
              /\ DeclIdx = {3}
              /\ Len(stdout) = 3

C21_Witness ==
    /\ pc = "mono_done"
    /\ AllFamiliesEmpty
    /\ Cardinality(DeclIdx) = 1
    /\ stdout[3].name = <<"qfilter", "c">>

----------------------------------------------------------------------------
(* C22: in every tier the arm printed for a tie, left = right, passes     *)
(* left as the small operand and right as the large operand; no arm of a   *)
(* tie passes left as the large operand.                                   *)
C22_TieBindsLeftSmall ==
    (pc \in {"loop", "done"} /\ Len(stdout) > 0 /\ left = right) =>
        LET a == stdout[Len(stdout)] IN
        /\ simd \in Tiers
        /\ ArmSmall(a) = "left"
        /\ ArmLarge(a) = "right"
        /\ a.args = <<"left", "right", "visitor">>
        /\ a.func[2] = left

C22_Witness ==
    /\ pc = "loop"
    /\ simd = "avx512"
    /\ left = 2
    /\ right = 2
    /\ stdout[Len(stdout)].args = <<"left", "right", "visitor">>

----------------------------------------------------------------------------
\* the id whose high field is the smaller run length
SmallFirstId(l, r) == BitOr(ShiftLeft(Min(l, r), SHIFT), Max(l, r))

(* C23 as stated: the id of the arm printed for (left, right) is          *)
(* (min(left, right) << SHIFT) | max(left, right).                         *)
C23_IdIsSmallThenLarge ==
    (pc \in {"loop", "done"} /\ Len(stdout) > 0) =>
        ArmId(stdout[Len(stdout)]) = SmallFirstId(left, right)

(* C23: the id of the arm printed for (left, right) is                     *)
(* (left << SHIFT) | right with 2^SHIFT = 2*WIDTH: its high field is left  *)
(* and its low field is right.  The high field is the small operand's run  *)
(* length exactly when left <= right; when left > right it is the large    *)
(* operand's and the id differs from (min << SHIFT) | max.                 *)
C23_IdIsLeftThenRight ==
    (pc \in {"loop", "done"} /\ Len(stdout) > 0) =>
        LET id == ArmId(stdout[Len(stdout)]) IN
        /\ 2 ^ SHIFT = 2 * WIDTH
        /\ id = BitOr(ShiftLeft(left, SHIFT), right)
        /\ id \div (2 ^ SHIFT) = left
        /\ id % (2 ^ SHIFT) = right
        /\ left <= right <=> id = SmallFirstId(left, right)
        /\ left > right =>
              /\ id \div (2 ^ SHIFT) = Max(left, right)
              /\ id % (2 ^ SHIFT) = Min(left, right)

C23_Witness ==
    /\ pc = "loop"
    /\ simd = "sse"
    /\ left = 2
    /\ right = 1
    /\ ArmId(stdout[Len(stdout)]) = 17
    /\ SmallFirstId(left, right) = 10

----------------------------------------------------------------------------
\* the (small, large) kernels the arms printed so far invoke
Invoked == {<<stdout[i].func[2], stdout[i].func[3]>> : i \in ArmIdx}

(* C24: with the catalog as the script builds it, every arm invokes a      *)
(* kernel of the catalog, and when the run has ended normally the kernels  *)
(* invoked are exactly the 3*WIDTH-1 kernels of the catalog; the tie arm   *)
(* of (WIDTH, WIDTH) invokes the catalog's kernel WIDTH x WIDTH.           *)
C24_InvokedEqualsCatalog ==
    /\ (pc \in {"loop", "done"} /\ Len(stdout) > 0) =>
          /\ kernels = Catalog(WIDTH)
          /\ Invoked \subseteq Range(kernels)
          /\ (left = WIDTH /\ right = WIDTH) =>
                /\ stdout[Len(stdout)].func = <<simd, WIDTH, WIDTH>>
                /\ <<WIDTH, WIDTH>> \in Range(kernels)
    /\ (pc = "done" /\ exit_status = 0) =>
          /\ Invoked = Range(kernels)
          /\ Cardinality(Invoked) = 3 * WIDTH - 1
          /\ Len(kernels) = 3 * WIDTH - 1

C24_Witness ==
    /\ pc = "done"
    /\ exit_status = 0
    /\ simd = "avx2"
    /\ Cardinality(Invoked) = 23
    /\ <<8, 8>> \in Invoked
    /\ <<15, 16>> \in Invoked

----------------------------------------------------------------------------
(* C25: for sse and avx2 the id literal of the arm printed for             *)
(* (left, right) has exactly two digits, left then right, both nonzero,   *)
(* in base 8 for sse and base 16 for avx2, and the zero fill adds nothing; *)
(* the ids lie in 9..63 for sse and in 17..255 for avx2, the first arm     *)
(* having the least and the last arm the greatest.                         *)
C25_TwoDigitLiteral ==
    (pc \in {"loop", "done"} /\ Len(stdout) > 0 /\ simd \in {"sse", "avx2"}) =>
        LET a == stdout[Len(stdout)]
            base == IF simd = "sse" THEN 8 ELSE 16
            lo == IF simd = "sse" THEN 9 ELSE 17
            hi == IF simd = "sse" THEN 63 ELSE 255
        IN
        /\ a.id.prefix = (IF simd = "sse" THEN "0o" ELSE "0x")
        /\ LitBase(a.id.prefix) = base
        /\ Len(a.id.digits) = 2
        /\ a.id.digits = <<left, right>>
        /\ a.id.digits[1] # 0
        /\ a.id.digits[2] # 0
        /\ a.id.digits = Digits(ArmId(a), base)
        /\ ArmId(a) \in lo..hi
        /\ ArmId(stdout[1]) = lo
        /\ pc = "done" => ArmId(a) = hi

C25_Witness ==
    /\ pc = "done"
    /\ simd = "avx2"
    /\ stdout[Len(stdout)].id = [prefix |-> "0x", digits |-> <<15, 15>>]
    /\ stdout[1].id = [prefix |-> "0x", digits |-> <<1, 1>>]
    /\ ArmId(stdout[Len(stdout)]) = 255

----------------------------------------------------------------------------
\* the vector families, a shuffling or broadcast family taken at one width
VectorBases ==
    {SHUF_ALGOS[a] \o <<SIMD_WIDTHS[w][1]>> :
         a \in DOMAIN SHUF_ALGOS, w \in DOMAIN SIMD_WIDTHS}
    \cup Range(SSE_ALGOS) \cup Range(AVX512_ALGOS)

VisitorNames == {VISITORS[v][1] : v \in DOMAIN VISITORS}

\* the declarations printed so far under the given name
DeclsNamed(n) == {i \in DeclIdx : stdout[i].name = n}

(* C26: a printed declaration has br in its name exactly when the         *)
(* function it calls ends in branch: a declaration with br calls           *)
(* <func>_branch, one without calls <func>.  When mono.py has ended, each  *)
(* vector family (at each width) has for every visitor exactly one         *)
(* declaration with br and one without, and the two have the same guard.   *)
C26_BrTagIffBranchCallee ==
    /\ \A i \in DeclIdx :
          LET d == stdout[i] IN
          /\ ("br" \in Range(d.name)) <=> (Last(d.callee) = "branch")
          /\ ("br" \in Range(d.name)) <=> NameIsBr(d.name)
          /\ (i \in VDeclIdx /\ NameIsBr(d.name)) =>
                d.callee = NameBase(d.name) \o <<"branch">>
          /\ (i \in VDeclIdx /\ ~NameIsBr(d.name)) =>
                d.callee = NameBase(d.name)
          /\ i \notin VDeclIdx => d.callee = d.name
    /\ pc = "mono_done" =>
          /\ Cardinality(VectorBases) = 10
          /\ \A b \in VectorBases : \A v \in VisitorNames :
                /\ Cardinality(DeclsNamed(b \o <<v>>)) = 1
                /\ Cardinality(DeclsNamed(b \o <<"br", v>>)) = 1
                /\ \A i \in DeclsNamed(b \o <<v>>) :
                      \A j \in DeclsNamed(b \o <<"br", v>>) :
                          stdout[i].guard = stdout[j].guard

C26_Witness ==
    /\ pc = "mono_done"
    /\ \E i \in DeclIdx :
          /\ stdout[i].name = <<"qfilter", "br", "lut">>
          /\ stdout[i].callee = <<"qfilter", "branch">>
          /\ stdout[i - 1].name = <<"qfilter", "lut">>
          /\ stdout[i - 1].callee = <<"qfilter">>
          /\ stdout[i - 1].guard = stdout[i].guard

----------------------------------------------------------------------------
(* C27: the names of the declarations printed are pairwise distinct, that  *)
(* of qfilter_c included: no function is declared twice.                   *)
C27_DeclNamesDistinct ==
    /\ \A i \in DeclIdx : \A j \in DeclIdx :
          i # j => stdout[i].name # stdout[j].name
    /\ Cardinality({stdout[i].name : i \in DeclIdx}) = Cardinality(DeclIdx)

C27_Witness ==
    /\ pc = "mono_done"
    /\ Cardinality(DeclsNamed(<<"qfilter", "c">>)) = 1
    /\ Cardinality(DeclsNamed(<<"qfilter", "count">>)) = 1
    /\ Cardinality(DeclsNamed(<<"qfilter", "br", "comp">>)) = 1
    /\ Cardinality({stdout[i].name : i \in DeclIdx}) > 60

----------------------------------------------------------------------------
\* the declarations printed so far for the families of a list
FamilyDecls(bases) == {i \in VDeclIdx : NameBase(stdout[i].name) \in bases}

(* C28: when mono.py has ended it has printed 67 declarations: 6 for the  *)
(* scalar families, none of them with br; 36 for shuffling and broadcast;  *)
(* 18 for the SSE families; 6 for vp2intersect_emulation; and qfilter_c,   *)
(* the only one that takes no visitor, which is the last line.             *)
C28_SixtySevenDeclarations ==
    pc = "mono_done" =>
        LET shuf == {b \in VectorBases : <<b[1]>> \in Range(SHUF_ALGOS)} IN
        /\ Cardinality(DeclIdx) = 67
        /\ Cardinality(FamilyDecls(Range(SCALAR_ALGOS))) = 6
        /\ \A i \in FamilyDecls(Range(SCALAR_ALGOS)) :
              "br" \notin Range(stdout[i].name)
        /\ Cardinality(FamilyDecls(shuf)) = 36
        /\ Cardinality(FamilyDecls(Range(SSE_ALGOS))) = 18
        /\ Cardinality(FamilyDecls(Range(AVX512_ALGOS))) = 6
        /\ Range(AVX512_ALGOS) = {<<"vp2intersect", "emulation">>}
        /\ Cardinality(VDeclIdx) = 66
        /\ DeclIdx \ VDeclIdx = {Len(stdout)}
        /\ Last(stdout).name = <<"qfilter", "c">>
        /\ Len(stdout) = 69

C28_Witness ==
    /\ pc = "mono_done"
    /\ Cardinality(DeclIdx) = 67
    /\ stdout[69].name = <<"qfilter", "c">>
    /\ stdout[69].params = <<"set_a", "set_b", "set_c">>

----------------------------------------------------------------------------
(* C29: every printed set compare_<alg> lists exactly five entries, all    *)
(* different, in the order branchless_merge_lut, <alg>_lut, <alg>_comp,    *)
(* <alg>_br_lut, <alg>_br_comp; the sets come in the order of ALGS, and    *)
(* when compare.py has ended there are exactly 10 of them.                 *)
C29_FiveOrderedEntries ==
    /\ \A i \in SetIdx :
          LET alg == Tail(stdout[i].name)
              vs == stdout[i].variants
          IN
          /\ i <= Len(ALGS)
          /\ stdout[i].name = <<"compare">> \o ALGS[i]
          /\ Len(vs) = 5
          /\ Cardinality(Range(vs)) = 5
          /\ vs = << <<"branchless", "merge", "lut">>,
                     alg \o <<"lut">>, alg \o <<"comp">>,
                     alg \o <<"br", "lut">>, alg \o <<"br", "comp">> >>
    /\ pc = "compare_done" =>
          /\ SetIdx = 1..10
          /\ Len(ALGS) = 10

C29_Witness ==
    /\ pc = "compare_done"
    /\ Cardinality(SetIdx) = 10
    /\ stdout[7].name = <<"compare", "bmiss">>
    /\ stdout[7].variants[4] = <<"bmiss", "br", "lut">>
    /\ stdout[7].variants[3] = <<"bmiss", "comp">>

----------------------------------------------------------------------------
(* C30: every identifier listed in a printed set is the name of a         *)
(* declaration that mono.py prints; the names mono.py prints are those of  *)
(* the declarations in its output when it has ended.                       *)
C30_SetEntriesAreDeclared ==
    /\ \A i \in SetIdx :
          \A k \in DOMAIN stdout[i].variants :
              stdout[i].variants[k] \in MonoVariantNames
    /\ pc = "mono_done" =>
          {stdout[i].name : i \in VDeclIdx} = MonoVariantNames

C30_Witness ==
    /\ pc = "compare_done"
    /\ \E i \in SetIdx :
          /\ <<"vp2intersect", "emulation", "br", "comp">>
                \in Range(stdout[i].variants)
          /\ <<"branchless", "merge", "lut">> \in Range(stdout[i].variants)
    /\ <<"vp2intersect", "emulation", "br", "comp">> \in MonoVariantNames

=============================================================================
